---------------------------- MODULE Spec2Model ----------------------------
(***************************************************************************)
(* A model of the polymorphically-typed lambda calculus of                 *)
(* src/src/lambda.rs: the Language registry, type inference, the printer   *)
(* and parser, and the budgeted enumerator.                                *)
(*                                                                         *)
(* Representation notes.                                                   *)
(*  - Rust indices are 0-based; TLA+ sequences are 1-based, so entry i of  *)
(*    a Vec is element i + 1 of the sequence modelling it.                 *)
(*  - A text is the sequence of its UTF-8 bytes, each written as a string;  *)
(*    offsets count bytes, and λ is the two bytes 0xCE 0xBB.               *)
(*  - A log-probability (an f64 in the code) is the record                 *)
(*    [w, n, d] standing for the real number w + ln(n / d), with w an      *)
(*    integer and n, d positive integers in lowest terms. 0f64 is          *)
(*    [w |-> 0, n |-> 1, d |-> 1]. Sums, negation and sign tests are       *)
(*    exact on this representation for the values a uniform Language       *)
(*    produces (there n = 1 or d = 1).                                     *)
(***************************************************************************)
EXTENDS Integers, Sequences, FiniteSets, TLC

(***************************************************************************)
(* Bounds of the model.                                                    *)
(***************************************************************************)
\* windows 0 .. MaxWindow - 1 are visited; the code's counter is unbounded
MaxWindow == 7
\* registry lookups are tried at the indices 0 .. MaxIndex
MaxIndex == 5
\* invent is called while the invented table is shorter than this
MaxInvented == 3

(***************************************************************************)
(* polytype: Type, Context, unification, instantiation.                    *)
(***************************************************************************)
TVar(v) == <<"Variable", v>>
TCon(name, args) == <<"Constructed", name, args>>
TArrow(arg, ret) == <<"Arrow", arg, ret>>

IsVar(t) == t[1] = "Variable"
IsCon(t) == t[1] = "Constructed"
IsArrow(t) == t[1] = "Arrow"

tint == TCon("int", <<>>)
tbool == TCon("bool", <<>>)
tnat == TCon("nat", <<>>)
tlist(t) == TCon("list", <<t>>)

\* arrow![t1, ..., tn]: right-nested arrows
RECURSIVE ArrowOf(_)
ArrowOf(ts) ==
  IF Len(ts) = 1 THEN ts[1] ELSE TArrow(ts[1], ArrowOf(Tail(ts)))

\* Arrow::args: the curried argument types
RECURSIVE ArrowArgs(_)
ArrowArgs(t) ==
  IF IsArrow(t) THEN <<t[2]>> \o ArrowArgs(t[3]) ELSE <<>>

\* Arrow::returns: the final return type
RECURSIVE ArrowReturns(_)
ArrowReturns(t) ==
  IF IsArrow(t) THEN ArrowReturns(t[3]) ELSE t

\* Context::default
ContextDefault == [substitution |-> <<>>, next |-> 0]

\* Context::new_variable
NewVariable(ctx) ==
  [tp |-> TVar(ctx.next), ctx |-> [ctx EXCEPT !.next = @ + 1]]

\* Type::apply
RECURSIVE Apply(_, _)
Apply(t, ctx) ==
  CASE IsVar(t) ->
         IF t[2] \in DOMAIN ctx.substitution
           THEN Apply(ctx.substitution[t[2]], ctx)
           ELSE t
    [] IsArrow(t) -> TArrow(Apply(t[2], ctx), Apply(t[3], ctx))
    [] IsCon(t) -> TCon(t[2], [i \in DOMAIN t[3] |-> Apply(t[3][i], ctx)])

\* Type::occurs
RECURSIVE Occurs(_, _)
Occurs(v, t) ==
  CASE IsVar(t) -> t[2] = v
    [] IsArrow(t) -> Occurs(v, t[2]) \/ Occurs(v, t[3])
    [] IsCon(t) -> \E i \in DOMAIN t[3] : Occurs(v, t[3][i])

\* Context::extend
Extend(ctx, v, t) ==
  [ctx EXCEPT !.substitution = (v :> t) @@ @]

\* Context::unify: [ok, ctx]; on failure the context may hold the bindings
\* made before the failure, as the in-place unification of the library does
RECURSIVE Unify(_, _, _)
RECURSIVE UnifyArgs(_, _, _, _)
Unify(ctx, t1, t2) ==
  LET a == Apply(t1, ctx)
      b == Apply(t2, ctx)
  IN  CASE a = b -> [ok |-> TRUE, ctx |-> ctx]
        [] a # b /\ IsVar(a) ->
             IF Occurs(a[2], b) THEN [ok |-> FALSE, ctx |-> ctx]
             ELSE [ok |-> TRUE, ctx |-> Extend(ctx, a[2], b)]
        [] a # b /\ ~IsVar(a) /\ IsVar(b) ->
             IF Occurs(b[2], a) THEN [ok |-> FALSE, ctx |-> ctx]
             ELSE [ok |-> TRUE, ctx |-> Extend(ctx, b[2], a)]
        [] a # b /\ IsArrow(a) /\ IsArrow(b) ->
             LET r == Unify(ctx, a[2], b[2])
             IN  IF r.ok THEN Unify(r.ctx, a[3], b[3]) ELSE r
        [] a # b /\ IsCon(a) /\ IsCon(b) ->
             IF a[2] # b[2] \/ Len(a[3]) # Len(b[3])
               THEN [ok |-> FALSE, ctx |-> ctx]
               ELSE UnifyArgs(ctx, a[3], b[3], 1)
        [] OTHER -> [ok |-> FALSE, ctx |-> ctx]
UnifyArgs(ctx, as, bs, i) ==
  IF i > Len(as) THEN [ok |-> TRUE, ctx |-> ctx]
  ELSE LET r == Unify(ctx, as[i], bs[i])
       IN  IF r.ok THEN UnifyArgs(r.ctx, as, bs, i + 1) ELSE r

\* Type::instantiate: every variable of the type gets a fresh one, the same
\* variable the same fresh one; [tp, ctx, bindings]
RECURSIVE Instantiate(_, _, _)
RECURSIVE InstantiateArgs(_, _, _, _)
Instantiate(t, ctx, bindings) ==
  CASE IsVar(t) ->
         IF t[2] \in DOMAIN bindings
           THEN [tp |-> bindings[t[2]], ctx |-> ctx, bindings |-> bindings]
           ELSE LET nv == NewVariable(ctx)
                IN  [tp |-> nv.tp, ctx |-> nv.ctx,
                     bindings |-> (t[2] :> nv.tp) @@ bindings]
    [] IsArrow(t) ->
         LET a == Instantiate(t[2], ctx, bindings)
             r == Instantiate(t[3], a.ctx, a.bindings)
         IN  [tp |-> TArrow(a.tp, r.tp), ctx |-> r.ctx, bindings |-> r.bindings]
    [] IsCon(t) ->
         LET r == InstantiateArgs(t[3], ctx, bindings, 1)
         IN  [tp |-> TCon(t[2], r.tps), ctx |-> r.ctx, bindings |-> r.bindings]
InstantiateArgs(ts, ctx, bindings, i) ==
  IF i > Len(ts) THEN [tps |-> <<>>, ctx |-> ctx, bindings |-> bindings]
  ELSE LET h == Instantiate(ts[i], ctx, bindings)
           r == InstantiateArgs(ts, h.ctx, h.bindings, i + 1)
       IN  [tps |-> <<h.tp>> \o r.tps, ctx |-> r.ctx, bindings |-> r.bindings]

\* Type::instantiate_indep
InstantiateIndep(t, ctx) ==
  LET r == Instantiate(t, ctx, <<>>) IN [tp |-> r.tp, ctx |-> r.ctx]


(***************************************************************************)
(* f64 log-probabilities and budgets: [w, n, d] is w + ln(n / d).          *)
(***************************************************************************)
RECURSIVE GCD(_, _)
GCD(a, b) == IF b = 0 THEN a ELSE GCD(b, a % b)

LogNum(w, n, d) ==
  LET g == GCD(n, d) IN [w |-> w, n |-> n \div g, d |-> d \div g]

\* 0f64
Zero == LogNum(0, 1, 1)
\* (k as f64), a whole number
Whole(k) == LogNum(k, 1, 1)
\* (m as f64).ln()
LnOf(m) == LogNum(0, m, 1)
\* a + b
Plus(a, b) == LogNum(a.w + b.w, a.n * b.n, a.d * b.d)
\* -a
Neg(a) == LogNum(0 - a.w, a.d, a.n)
\* a - b
Minus(a, b) == Plus(a, Neg(b))

\* floor(1000 * e^k) for k = 1 .. 12
ExpTable ==
  <<2718, 7389, 20085, 54598, 148413, 403428, 1096633, 2980957,
    8103083, 22026465, 59874141, 162754791>>

\* a < 0f64
Lt0(a) ==
  CASE a.w = 0 -> a.n < a.d
    [] a.w > 0 -> a.n * ExpTable[a.w] < a.d * 1000
    [] a.w < 0 -> a.n * 1000 < a.d * ExpTable[0 - a.w]
\* a <= 0f64 (e^k is irrational for k # 0: equality needs w = 0)
Le0(a) ==
  IF a.w = 0 THEN a.n <= a.d ELSE Lt0(a)
\* a < b, a <= b
Lt(a, b) == Lt0(Minus(a, b))
Le(a, b) == Le0(Minus(a, b))
\* f64::max
MaxNum(a, b) == IF Lt(a, b) THEN b ELSE a

(***************************************************************************)
(* Expression (lambda.rs, enum Expression).                                *)
(***************************************************************************)
Primitive(num) == <<"Primitive", num>>
Application(f, x) == <<"Application", f, x>>
Abstraction(body) == <<"Abstraction", body>>
Index(i) == <<"Index", i>>
Invented(num) == <<"Invented", num>>

IsPrimitive(e) == e[1] = "Primitive"
IsApplication(e) == e[1] = "Application"
IsAbstraction(e) == e[1] = "Abstraction"
IsIndex(e) == e[1] = "Index"
IsInvented(e) == e[1] = "Invented"

(***************************************************************************)
(* Language: the registry.                                                 *)
(***************************************************************************)
\* Language::uniform
uniform(primitives, invented) ==
  [primitives |-> primitives,
   invented |-> invented,
   variable_logprob |-> Zero,
   primitives_logprob |-> [i \in 1..Len(primitives) |-> Zero],
   invented_logprob |-> [i \in 1..Len(invented) |-> Zero]]

None == [some |-> FALSE]
Some(v) == [some |-> TRUE, val |-> v]

Min(a, b) == IF a < b THEN a ELSE b

\* Language::primitive: zip(primitives, primitives_logprob).nth(num)
primitive(dsl, num) ==
  IF num < Min(Len(dsl.primitives), Len(dsl.primitives_logprob))
    THEN Some(<<dsl.primitives[num + 1][1], dsl.primitives[num + 1][2],
                dsl.primitives_logprob[num + 1]>>)
    ELSE None

\* Language::invented: zip(invented, invented_logprob).nth(num)
invented(dsl, num) ==
  IF num < Min(Len(dsl.invented), Len(dsl.invented_logprob))
    THEN Some(<<dsl.invented[num + 1][1], dsl.invented[num + 1][2],
                dsl.invented_logprob[num + 1]>>)
    ELSE None

(***************************************************************************)
(* Inference.                                                              *)
(***************************************************************************)
InferOk(tp, ctx, indices) ==
  [ok |-> TRUE, tp |-> tp, ctx |-> ctx, indices |-> indices]
\* an error reported as a success with a type variable
InferErrAsOk(kind) == [ok |-> TRUE, tp |-> TVar(0), ctx |-> ContextDefault,
                       indices |-> <<>>]
InferErr(kind) == [ok |-> FALSE, err |-> kind]

\* the fresh return variable returned as it is, without the substitution
UnifyApplicationUnapplied(f, x) ==
  LET ret == NewVariable(x.ctx)
      u == Unify(ret.ctx, f.tp, TArrow(x.tp, ret.tp))
  IN  IF u.ok THEN InferOk(ret.tp, u.ctx, x.indices) ELSE InferErr("Unify")
\* the end of the Application case: a fresh return variable, f's type
\* unified with arrow![x_tp, ret_tp], the return variable substituted
UnifyApplication(f, x) ==
  LET ret == NewVariable(x.ctx)
      u == Unify(ret.ctx, f.tp, TArrow(x.tp, ret.tp))
  IN  IF u.ok THEN InferOk(Apply(ret.tp, u.ctx), u.ctx, x.indices)
      ELSE InferErr("Unify")

\* Expression::infer; env is most-recent first, indices maps a free index
\* (less the depth of the environment) to its type variable
RECURSIVE infer(_, _, _, _, _)
infer(e, dsl, ctx, env, indices) ==
  CASE IsPrimitive(e) ->
         IF e[2] < Len(dsl.primitives)
           THEN LET r == InstantiateIndep(dsl.primitives[e[2] + 1][2], ctx)
                IN  InferOk(r.tp, r.ctx, indices)
           ELSE InferErr("BadExpression")
    [] IsApplication(e) ->
         LET f == infer(e[2], dsl, ctx, env, indices)
         IN  IF ~f.ok THEN f
             ELSE LET x == infer(e[3], dsl, f.ctx, env, f.indices)
                  IN  IF ~x.ok THEN x ELSE UnifyApplication(f, x)
    [] IsAbstraction(e) ->
         LET arg == NewVariable(ctx)
             b == infer(e[2], dsl, arg.ctx, <<arg.tp>> \o env, indices)
         IN  IF ~b.ok THEN b
             ELSE InferOk(Apply(TArrow(arg.tp, b.tp), b.ctx), b.ctx, b.indices)
    [] IsIndex(e) ->
         IF e[2] < Len(env)
           THEN InferOk(Apply(env[e[2] + 1], ctx), ctx, indices)
           ELSE LET key == e[2] - Len(env)
                IN  IF key \in DOMAIN indices
                      THEN InferOk(Apply(indices[key], ctx), ctx, indices)
                      ELSE LET nv == NewVariable(ctx)
                           IN  InferOk(Apply(nv.tp, nv.ctx), nv.ctx,
                                       (key :> nv.tp) @@ indices)
    [] IsInvented(e) ->
         IF e[2] < Len(dsl.invented)
           THEN LET r == InstantiateIndep(dsl.invented[e[2] + 1][2], ctx)
                IN  InferOk(r.tp, r.ctx, indices)
           ELSE InferErr("BadExpression")

\* Language::infer
LanguageInfer(dsl, e) == infer(e, dsl, ContextDefault, <<>>, <<>>)

\* invent putting the new entry first and every earlier entry one place on
inventPrepend(dsl, e) ==
  LET r == infer(e, dsl, ContextDefault, <<>>, <<>>)
  IN  IF r.ok
        THEN [ok |-> TRUE, num |-> Len(dsl.invented),
              dsl |-> [dsl EXCEPT !.invented = <<<<e, r.tp>>>> \o @]]
        ELSE [ok |-> FALSE, err |-> r.err, dsl |-> dsl]

\* invent pushing the expression before its type is inferred
inventPushFirst(dsl, e) ==
  LET pushed == [dsl EXCEPT !.invented = Append(@, <<e, TVar(0)>>)]
      r == infer(e, dsl, ContextDefault, <<>>, <<>>)
  IN  IF r.ok
        THEN [ok |-> TRUE, num |-> Len(pushed.invented) - 1,
              dsl |-> [dsl EXCEPT !.invented = Append(@, <<e, r.tp>>)]]
        ELSE [ok |-> FALSE, err |-> r.err, dsl |-> pushed]

\* Language::invent: [ok, num, dsl]
invent(dsl, e) ==
  LET r == infer(e, dsl, ContextDefault, <<>>, <<>>)
  IN  IF r.ok
        THEN LET grown == [dsl EXCEPT !.invented = Append(@, <<e, r.tp>>)]
             IN  [ok |-> TRUE, num |-> Len(grown.invented) - 1, dsl |-> grown]
        ELSE [ok |-> FALSE, err |-> r.err, dsl |-> dsl]

(***************************************************************************)
(* strip_invented. A call either returns an expression or does not return: *)
(* indexing the invented table out of range panics, and an invention that  *)
(* is reached again while it is being expanded is expanded without end     *)
(* until the stack overflows. `expanding` is the set of inventions under   *)
(* expansion on the call stack.                                            *)
(***************************************************************************)
Stripped(e) == [kind |-> "value", expr |-> e]
StripPanic == [kind |-> "panic"]
StripOverflow == [kind |-> "overflow"]

\* Expression::Application(Box::new(f.strip..), Box::new(x.strip..)): f first
StripApplication(f, x) ==
  IF f.kind # "value" THEN f
  ELSE IF x.kind # "value" THEN x
  ELSE Stripped(Application(f.expr, x.expr))
\* Expression::Abstraction(Box::new(body.strip_invented(invented)))
StripAbstraction(body) ==
  IF body.kind # "value" THEN body ELSE Stripped(Abstraction(body.expr))

\* strip_invented replacing an Invented node by its definition as it stands
RECURSIVE stripOneLevel(_, _, _)
stripOneLevel(e, invented_table, expanding) ==
  CASE IsApplication(e) ->
         StripApplication(stripOneLevel(e[2], invented_table, expanding),
                          stripOneLevel(e[3], invented_table, expanding))
    [] IsAbstraction(e) ->
         StripAbstraction(stripOneLevel(e[2], invented_table, expanding))
    [] IsInvented(e) ->
         IF e[2] >= Len(invented_table) THEN StripPanic
         ELSE Stripped(invented_table[e[2] + 1][1])
    [] OTHER -> Stripped(e)

\* Expression::strip_invented
RECURSIVE strip_invented(_, _, _)
strip_invented(e, invented_table, expanding) ==
  CASE IsApplication(e) ->
         StripApplication(strip_invented(e[2], invented_table, expanding),
                          strip_invented(e[3], invented_table, expanding))
    [] IsAbstraction(e) ->
         StripAbstraction(strip_invented(e[2], invented_table, expanding))
    [] IsInvented(e) ->
         IF e[2] >= Len(invented_table) THEN StripPanic
         ELSE IF e[2] \in expanding THEN StripOverflow
         ELSE strip_invented(invented_table[e[2] + 1][1], invented_table,
                             expanding \cup {e[2]})
    [] OTHER -> Stripped(e)

\* Language::strip_invented
LanguageStripInvented(dsl, e) == strip_invented(e, dsl.invented, {})

(***************************************************************************)
(* The enumerator (lambda.rs, mod enumerator).                             *)
(***************************************************************************)
BUDGET_INCREMENT == 1
MAX_DEPTH == 256

\* the productions with the primitives walked from the last to the first
ProductionsLastFirst(dsl, env) ==
  [i \in 1..Min(Len(dsl.primitives), Len(dsl.primitives_logprob)) |->
     [p |-> dsl.primitives_logprob[Len(dsl.primitives) + 1 - i],
      tp |-> dsl.primitives[Len(dsl.primitives) + 1 - i][2],
      instantiate |-> TRUE,
      expr |-> Primitive(Len(dsl.primitives) - i)]]
  \o
  [i \in 1..Min(Len(dsl.invented), Len(dsl.invented_logprob)) |->
     [p |-> dsl.invented_logprob[i], tp |-> dsl.invented[i][2],
      instantiate |-> TRUE, expr |-> Invented(i - 1)]]
  \o
  [i \in 1..Len(env) |->
     [p |-> dsl.variable_logprob, tp |-> env[i],
      instantiate |-> FALSE, expr |-> Index(i - 1)]]

\* the productions candidates() walks, in its order: primitives, inventions
\* (each zipped with its log-probability table), then the bound variables
Productions(dsl, env) ==
  [i \in 1..Min(Len(dsl.primitives), Len(dsl.primitives_logprob)) |->
     [p |-> dsl.primitives_logprob[i], tp |-> dsl.primitives[i][2],
      instantiate |-> TRUE, expr |-> Primitive(i - 1)]]
  \o
  [i \in 1..Min(Len(dsl.invented), Len(dsl.invented_logprob)) |->
     [p |-> dsl.invented_logprob[i], tp |-> dsl.invented[i][2],
      instantiate |-> TRUE, expr |-> Invented(i - 1)]]
  \o
  [i \in 1..Len(env) |->
     [p |-> dsl.variable_logprob, tp |-> env[i],
      instantiate |-> FALSE, expr |-> Index(i - 1)]]

\* a loop in which every production works on the one context of the node, so
\* that a production sees what the productions before it left there
RECURSIVE AdmissibleThreaded(_, _, _, _)
AdmissibleThreaded(prods, i, request, ctx) ==
  IF i > Len(prods) THEN <<>>
  ELSE LET pr == prods[i]
           inst == IF pr.instantiate THEN InstantiateIndep(pr.tp, ctx)
                   ELSE [tp |-> pr.tp, ctx |-> ctx]
           ret == IF IsArrow(inst.tp) THEN ArrowReturns(inst.tp) ELSE inst.tp
           u == Unify(inst.ctx, ret, request)
           rest == AdmissibleThreaded(prods, i + 1, request, u.ctx)
       IN  IF u.ok
             THEN <<[p |-> pr.p, expr |-> pr.expr,
                     tp |-> Apply(inst.tp, u.ctx), ctx |-> u.ctx]>> \o rest
             ELSE rest

\* the loop of candidates(): each production is tried on its own clone of
\* the context and kept when its return type unifies with the request
RECURSIVE Admissible(_, _, _, _)
Admissible(prods, i, request, ctx) ==
  IF i > Len(prods) THEN <<>>
  ELSE LET pr == prods[i]
           inst == IF pr.instantiate THEN InstantiateIndep(pr.tp, ctx)
                   ELSE [tp |-> pr.tp, ctx |-> ctx]
           ret == IF IsArrow(inst.tp) THEN ArrowReturns(inst.tp) ELSE inst.tp
           u == Unify(inst.ctx, ret, request)
           rest == Admissible(prods, i + 1, request, ctx)
       IN  IF u.ok
             THEN <<[p |-> pr.p, expr |-> pr.expr,
                     tp |-> Apply(inst.tp, u.ctx), ctx |-> u.ctx]>> \o rest
             ELSE rest

\* exp(x) as the fraction <<n, d>>; every log-probability has w = 0
ExpOf(x) == <<x.n, x.d>>
\* ln of the fraction <<n, d>>
LnOfFraction(f) == LogNum(0, f[1], f[2])
\* the sum of two fractions
AddFractions(e, r) == <<e[1] * r[2] + r[1] * e[2], e[2] * r[2]>>
\* the sum of the fractions exp(cands[i].p - largest), i = from .. Len
RECURSIVE SumExp(_, _, _)
SumExp(cands, largest, from) ==
  IF from > Len(cands) THEN <<0, 1>>
  ELSE AddFractions(ExpOf(Minus(cands[from].p, largest)),
                    SumExp(cands, largest, from + 1))
\* the largest of cands[i].p, i = 1 .. upto (cands is not empty)
RECURSIVE Largest(_, _)
Largest(cands, upto) ==
  IF upto = 1 THEN cands[1].p
  ELSE MaxNum(Largest(cands, upto - 1), cands[upto].p)

\* the number of candidates that are bound variables
CountIndexed(cands) ==
  Cardinality({i \in DOMAIN cands : IsIndex(cands[i].expr)})
\* every bound variable keeps the whole weight of variable_logprob
SplitVariablesWhole(cands, n_indexed) == cands
\* the weight of bound variables is shared among the n_indexed of them
SplitVariables(cands, n_indexed) ==
  [i \in DOMAIN cands |->
     IF IsIndex(cands[i].expr)
       THEN [cands[i] EXCEPT !.p = Minus(@, LnOf(n_indexed))]
       ELSE cands[i]]
\* z = p_largest + ln(sum of exp(p - p_largest))
LogSumExp(cands, p_largest) ==
  Plus(p_largest, LnOfFraction(SumExp(cands, p_largest, 1)))
\* every candidate's log-probability less z: <<ll, expr, tp, ctx>>
NormalizeBy(cands, z) ==
  [i \in DOMAIN cands |->
     <<Minus(cands[i].p, z), cands[i].expr, cands[i].tp, cands[i].ctx>>]
Normalize(cands) ==
  IF cands = <<>> THEN <<>>
  ELSE NormalizeBy(cands, LogSumExp(cands, Largest(cands, Len(cands))))
SplitAndNormalize(cands) ==
  Normalize(SplitVariables(cands, CountIndexed(cands)))

\* enumerator::candidates: <<ll, expr, tp, ctx>> in production order
candidates(dsl, request, ctx, env) ==
  SplitAndNormalize(Admissible(Productions(dsl, env), 1, request, ctx))

\* a budget is <<lower, upper>>; an item is <<ll, ctx, expr>>
RECURSIVE enumerate(_, _, _, _, _, _)
RECURSIVE enumerate_application(_, _, _, _, _, _, _)
RECURSIVE ExpandCandidates(_, _, _, _, _, _)
RECURSIVE ExpandArguments(_, _, _, _, _, _, _, _)

\* the items of the body as they are, without the binder
WrapNothing(it) == it
\* .map(|(ll, ctx, body)| (ll, ctx, Expression::Abstraction(body)))
WrapAbstraction(it) ==
  [i \in DOMAIN it |-> <<it[i][1], it[i][2], Abstraction(it[i][3])>>]
\* .filter(|&(ll, ..)| -ll <= budget.1)
WithinBudget(cands, budget) ==
  SelectSeq(cands, LAMBDA c : Le(Neg(c[1]), budget[2]))
\* (budget.0 + ll, budget.1 + ll)
ShiftBudget(budget, ll) == <<Plus(budget[1], ll), Plus(budget[2], ll)>>
\* .map(|(l, c, x)| (l + ll, c, x))
AddLikelihood(it, ll) ==
  [j \in DOMAIN it |-> <<Plus(it[j][1], ll), it[j][2], it[j][3]>>]
\* the base-case test without its lower bound
InBudgetUpperOnly(budget) == Le(Zero, budget[2])
\* the test of enumerate_application on a function without arguments left
InBudget(budget) == Lt0(budget[1]) /\ Le(Zero, budget[2])

\* a search without a limit of depth
NeverTooDeep(depth) == FALSE
\* depth > MAX_DEPTH
TooDeep(depth) == depth > MAX_DEPTH

\* enumerator::enumerate
enumerate(dsl, request, ctx, env, budget, depth) ==
  IF Le0(budget[2]) \/ TooDeep(depth) THEN <<>>
  ELSE IF IsArrow(request)
    THEN WrapAbstraction(enumerate(dsl, request[3], ctx,
                                   <<request[2]>> \o env, budget, depth))
    ELSE ExpandCandidates(dsl, env, budget, depth,
           WithinBudget(candidates(dsl, request, ctx, env), budget), 1)

\* the flat_map of enumerate over the kept candidates
ExpandCandidates(dsl, env, budget, depth, cands, i) ==
  IF i > Len(cands) THEN <<>>
  ELSE AddLikelihood(
         enumerate_application(dsl, cands[i][4], env, cands[i][2],
           ArrowArgs(cands[i][3]), ShiftBudget(budget, cands[i][1]),
           depth + 1),
         cands[i][1])
       \o ExpandCandidates(dsl, env, budget, depth, cands, i + 1)

\* enumerator::enumerate_application
enumerate_application(dsl, ctx, env, f, arg_tps, budget, depth) ==
  IF arg_tps # <<>>
    THEN ExpandArguments(dsl, env, f, Tail(arg_tps), budget, depth,
           enumerate(dsl, Apply(Head(arg_tps), ctx), ctx, env,
                     <<Zero, budget[2]>>, depth),
           1)
    ELSE IF InBudget(budget) THEN << <<Zero, ctx, f>> >> ELSE <<>>

\* the flat_map of enumerate_application over the enumerated arguments
ExpandArguments(dsl, env, f, arg_tps, budget, depth, args, i) ==
  IF i > Len(args) THEN <<>>
  ELSE AddLikelihood(
         enumerate_application(dsl, args[i][2], env,
           Application(f, args[i][3]), arg_tps,
           ShiftBudget(budget, args[i][1]), depth),
         args[i][1])
       \o ExpandArguments(dsl, env, f, arg_tps, budget, depth, args, i + 1)

\* the offsets handed out from the last window of the model down to the first
WindowOffsetDescending(n) == Whole(BUDGET_INCREMENT * (MaxWindow - 1 - n))
\* the offset of window n and budget(offset) of enumerator::new
WindowOffset(n) == Whole(BUDGET_INCREMENT * n)
budgetOf(offset) == <<offset, Plus(offset, Whole(BUDGET_INCREMENT))>>

\* .map(|(ll, _, expr)| (expr, ll))
WindowItems(it) == [i \in DOMAIN it |-> [ll |-> it[i][1], expr |-> it[i][3]]]

\* the inner iterator enumerator::new builds for window n
Window(dsl, request, n) ==
  WindowItems(enumerate(dsl, request, ContextDefault, <<>>,
                        budgetOf(WindowOffset(n)), 0))

(***************************************************************************)
(* Printer and parser. A text is a sequence of bytes; offsets count bytes.  *)
(***************************************************************************)
\* "λ" in UTF-8
LambdaBytes == <<"0xCE", "0xBB">>
Digits == <<"0", "1", "2", "3", "4", "5", "6", "7", "8", "9">>
IsWhitespace(c) == c \in {" ", "\t", "\n"}
IsDigit(c) == \E k \in 1..10 : Digits[k] = c
DigitValue(c) == (CHOOSE k \in 1..10 : Digits[k] = c) - 1

\* format!("{}", i) for a usize
RECURSIVE ShowNat(_)
ShowNat(i) ==
  IF i < 10 THEN <<Digits[i + 1]>>
  ELSE ShowNat(i \div 10) \o <<Digits[(i % 10) + 1]>>

\* str::parse::<usize>: digits after an optional plus sign
RECURSIVE DigitsValue(_)
DigitsValue(t) ==
  IF t = <<>> THEN 0
  ELSE 10 * DigitsValue(SubSeq(t, 1, Len(t) - 1)) + DigitValue(t[Len(t)])
ParseUsize(t) ==
  LET body == IF t # <<>> /\ t[1] = "+" THEN Tail(t) ELSE t
  IN  IF body # <<>> /\ \A k \in DOMAIN body : IsDigit(body[k])
        THEN Some(DigitsValue(body))
        ELSE None

\* inp[from..]
From(inp, from) == SubSeq(inp, from + 1, Len(inp))
\* inp[..upto]
Upto(inp, upto) == SubSeq(inp, 1, upto)
\* str::find with a predicate on characters: the first position, or -1
FindEnd(inp) ==
  LET hits == {k \in 1..Len(inp) : IsWhitespace(inp[k]) \/ inp[k] = ")"}
  IN  IF hits = {} THEN -1 ELSE (CHOOSE k \in hits : \A j \in hits : k <= j) - 1
FindWhitespace(inp) ==
  LET hits == {k \in 1..Len(inp) : IsWhitespace(inp[k])}
  IN  IF hits = {} THEN -1 ELSE (CHOOSE k \in hits : \A j \in hits : k <= j) - 1
FindOpen(inp) ==
  LET hits == {k \in 1..Len(inp) : inp[k] = "("}
  IN  IF hits = {} THEN -1 ELSE (CHOOSE k \in hits : \A j \in hits : k <= j) - 1
\* chars().take_while(is_whitespace).count()
RECURSIVE LeadingWhitespace(_)
LeadingWhitespace(inp) ==
  IF inp # <<>> /\ IsWhitespace(inp[1])
    THEN 1 + LeadingWhitespace(Tail(inp)) ELSE 0
AllWhitespace(inp) == \A k \in DOMAIN inp : IsWhitespace(inp[k])

\* Expression::show
RECURSIVE show(_, _, _)
show(e, dsl, is_function) ==
  CASE IsPrimitive(e) -> dsl.primitives[e[2] + 1][1]
    [] IsApplication(e) ->
         IF is_function
           THEN show(e[2], dsl, TRUE) \o <<" ">> \o show(e[3], dsl, FALSE)
           ELSE <<"(">> \o show(e[2], dsl, TRUE) \o <<" ">>
                \o show(e[3], dsl, FALSE) \o <<")">>
    [] IsAbstraction(e) ->
         <<"(">> \o LambdaBytes \o <<" ">> \o show(e[2], dsl, FALSE)
         \o <<")">>
    [] IsIndex(e) -> <<"$">> \o ShowNat(e[2])
    [] IsInvented(e) -> <<"#">> \o show(dsl.invented[e[2] + 1][1], dsl, FALSE)

\* Language::stringify
stringify(dsl, e) == show(e, dsl, FALSE)

ParseOk(di, e) == [ok |-> TRUE, di |-> di, expr |-> e]
ParseError(at, msg) == [ok |-> FALSE, at |-> at, msg |-> msg]

\* the first position of a registry entry equal to v (Iterator::position)
PositionOf(table, v) ==
  LET hits == {k \in 1..Len(table) : table[k][1] = v}
  IN  IF hits = {} THEN None
      ELSE Some((CHOOSE k \in hits : \A j \in hits : k <= j) - 1)

\* a fold that nests to the right: Application(e0, Application(e1, e2))
RECURSIVE FoldApplicationRight(_, _)
FoldApplicationRight(init, items) ==
  IF items = <<>> THEN init
  ELSE Application(init, FoldApplicationRight(Head(items), Tail(items)))

\* left fold of Application over the items of an application
RECURSIVE FoldApplication(_, _)
FoldApplication(init, items) ==
  IF items = <<>> THEN init
  ELSE FoldApplication(Application(init, Head(items)), Tail(items))

\* di += inp[di..].chars().take_while(|c| c.is_whitespace()).count()
SkipSpaces(inp, di) == di + LeadingWhitespace(From(inp, di))

\* Option::or_else and Option::unwrap_or
OrElse(a, b) == IF a.some THEN a ELSE b
UnwrapOr(a, default) == IF a.some THEN a.val ELSE default

RECURSIVE parse(_, _, _)
RECURSIVE ApplicationLoop(_, _, _, _, _)
RECURSIVE ApplicationItem(_, _, _, _, _, _)
RECURSIVE ApplicationComplete(_, _, _, _, _)

\* the loop of the application parser, from position di with items parsed
ApplicationLoop(dsl, inp, offset, di, items) ==
  ApplicationItem(dsl, inp, offset, di, items,
                  parse(dsl, From(inp, di), offset + di))
\* r is the item parsed at di: push it, advance, skip spaces
ApplicationItem(dsl, inp, offset, di, items, r) ==
  IF ~r.ok THEN r
  ELSE ApplicationComplete(dsl, inp, offset, SkipSpaces(inp, di + r.di),
                           Append(items, r.expr))
\* check if complete
ApplicationComplete(dsl, inp, offset, di, items) ==
  IF di >= Len(inp) THEN ParseError(offset + di, "incomplete application")
  ELSE IF inp[di + 1] = ")"
    THEN ParseOk(di + 1, FoldApplication(Head(items), Tail(items)))
  ELSE ApplicationLoop(dsl, inp, offset, di, items)

\* the position after an opening parenthesis that only whitespace precedes
AfterOpenAt(inp, i) ==
  IF i >= 0 /\ AllWhitespace(Upto(inp, i)) THEN Some(i + 1) ELSE None
AfterOpen(inp) == AfterOpenAt(inp, FindOpen(inp))

\* the closure `primitive` of Expression::parse
PrimitiveEnd(inp, next) ==
  IF next = -1 /\ Len(inp) > 0 THEN Some(Len(inp))
  ELSE IF next > 0 THEN Some(next) ELSE None
PrimitiveFound(offset, di, num) ==
  IF num.some THEN ParseOk(di, Primitive(num.val))
  ELSE ParseError(offset + di, "unexpected end of expression")
PrimitiveNamed(dsl, inp, offset, di) ==
  IF di.some
    THEN Some(PrimitiveFound(offset, di.val,
                             PositionOf(dsl.primitives, Upto(inp, di.val))))
    ELSE None
ParsePrimitive(dsl, inp, offset) ==
  PrimitiveNamed(dsl, inp, offset, PrimitiveEnd(inp, FindEnd(inp)))

\* the closure `application`
ApplicationFrom(dsl, inp, offset, open) ==
  IF open.some THEN Some(ApplicationLoop(dsl, inp, offset, open.val, <<>>))
  ELSE None
ParseApplication(dsl, inp, offset) ==
  ApplicationFrom(dsl, inp, offset, AfterOpen(inp))

\* the closure `abstraction`: the position after the word lambda or λ
LambdaWord(inp, di, ndi) ==
  IF ndi >= 0 /\ SubSeq(inp, di + 1, di + ndi)
                   \in {<<"l", "a", "m", "b", "d", "a">>, LambdaBytes}
    THEN Some(di + ndi) ELSE None
AfterLambda(inp, open) ==
  IF open.some
    THEN LambdaWord(inp, open.val, FindWhitespace(From(inp, open.val)))
    ELSE None
\* r is the body parsed at di: check if complete
AbstractionComplete(inp, offset, di, r) ==
  IF ~r.ok THEN r
  ELSE IF di + r.di < Len(inp) /\ inp[di + r.di + 1] = ")"
    THEN ParseOk(di + r.di + 1, Abstraction(r.expr))
  ELSE ParseError(offset + di + r.di, "incomplete application")
AbstractionBody(dsl, inp, offset, di) ==
  AbstractionComplete(inp, offset, di, parse(dsl, From(inp, di), offset + di))
AbstractionFrom(dsl, inp, offset, start) ==
  IF start.some
    THEN Some(AbstractionBody(dsl, inp, offset, SkipSpaces(inp, start.val)))
    ELSE None
ParseAbstraction(dsl, inp, offset) ==
  AbstractionFrom(dsl, inp, offset, AfterLambda(inp, AfterOpen(inp)))

\* the closure `index`
IndexNumbered(di, num) ==
  IF num.some THEN Some(ParseOk(di, Index(num.val))) ELSE None
IndexUpto(inp, i) ==
  IF i >= 0 THEN IndexNumbered(1 + i, ParseUsize(SubSeq(inp, 2, 1 + i)))
  ELSE None
ParseIndex(dsl, inp, offset) ==
  IF Len(inp) > 1 /\ inp[1] = "$" THEN IndexUpto(inp, FindEnd(From(inp, 1)))
  ELSE None

\* the closure `invented`
InventedFound(offset, di, num) ==
  IF num.some THEN ParseOk(di, Invented(num.val))
  ELSE ParseError(offset + di, "invented expr is unfamiliar to context")
InventedBody(dsl, offset, r) ==
  IF ~r.ok THEN r
  ELSE InventedFound(offset, 1 + r.di, PositionOf(dsl.invented, r.expr))
ParseInvented(dsl, inp, offset) ==
  IF Len(inp) >= 2 /\ inp[1] = "#" /\ inp[2] = "("
    THEN Some(InventedBody(dsl, offset, parse(dsl, From(inp, 1), offset + 1)))
    ELSE None

\* Expression::parse: the first applicable variant, in this order
parse(dsl, inp, offset) ==
  UnwrapOr(
    OrElse(OrElse(OrElse(OrElse(ParseAbstraction(dsl, inp, offset),
                                ParseApplication(dsl, inp, offset)),
                         ParseIndex(dsl, inp, offset)),
                  ParseInvented(dsl, inp, offset)),
           ParsePrimitive(dsl, inp, offset)),
    ParseError(offset, "could not parse any expression variant"))

\* inp.trim_left()
TrimLeft(inp) == From(inp, LeadingWhitespace(inp))
\* the and_then of Language::parse: only whitespace may follow
ExpectEnd(s, offset, r) ==
  IF ~r.ok THEN r
  ELSE IF AllWhitespace(From(s, r.di)) THEN [ok |-> TRUE, expr |-> r.expr]
  ELSE ParseError(offset + r.di,
                  "expected end of expression, found more tokens")
ParseTrimmed(dsl, s, offset) == ExpectEnd(s, offset, parse(dsl, s, offset))

\* Language::parse: [ok, expr] or [ok, at, msg]
LanguageParse(dsl, inp) ==
  ParseTrimmed(dsl, TrimLeft(inp), Len(inp) - Len(TrimLeft(inp)))

(***************************************************************************)
(* The registries a caller hands to Language::uniform, the expressions it  *)
(* hands to invent and the types it requests.                              *)
(***************************************************************************)
int2 == ArrowOf(<<tint, tint>>)
int3 == ArrowOf(<<tint, tint, tint>>)

\* the registry of the enumeration example (lambda.rs, lines 79-87)
RegistryA ==
  [primitives |-> << <<<<"0">>, tint>>, <<<<"1">>, tint>>, <<<<"+">>, int3>>,
                     <<<<">">>, ArrowOf(<<tint, tint, tbool>>)>> >>,
   invented |-> <<>>]
\* the same without the comparison
RegistryA3 ==
  [primitives |-> << <<<<"0">>, tint>>, <<<<"1">>, tint>>, <<<<"+">>, int3>> >>,
   invented |-> <<>>]
\* the registry of the inference example (lambda.rs, lines 44-61)
RegistryDoc ==
  [primitives |->
     << <<<<"s", "i", "n", "g", "l", "e", "t", "o", "n">>,
          TArrow(TVar(0), tlist(TVar(0)))>>,
        <<<<">", "=">>, ArrowOf(<<tint, tint, tbool>>)>>,
        <<<<"+">>, int3>>, <<<<"0">>, tint>>, <<<<"1">>, tint>> >>,
   invented |-> << <<Application(Primitive(2), Primitive(4)), int2>> >>]
\* inventions that are a single primitive, and two equal inventions
RegistryInv ==
  [primitives |-> << <<<<"0">>, tint>>, <<<<"1">>, tint>>, <<<<"+">>, int3>> >>,
   invented |-> << <<Primitive(0), tint>>,
                   <<Application(Primitive(2), Primitive(1)), int2>>,
                   <<Application(Primitive(2), Primitive(1)), int2>> >>]
\* polymorphic primitives over lists of functions
RegistryPoly ==
  [primitives |->
     << <<<<"0">>, tint>>,
        <<<<"f", "s">>, tlist(int2)>>,
        <<<<"n", "i", "l">>, tlist(TVar(0))>>,
        <<<<"g">>, ArrowOf(<<TVar(0), tlist(TVar(0)), TVar(1), TVar(1), tint>>)>> >>,
   invented |-> <<>>]
\* z is the only production of type nat
RegistrySole ==
  [primitives |-> << <<<<"0">>, tint>>, <<<<"l", "e", "n">>, TArrow(tnat, tint)>>,
                     <<<<"z">>, tnat>> >>,
   invented |-> <<>>]
\* s is the only production of type nat
RegistrySucc ==
  [primitives |-> << <<<<"0">>, tint>>, <<<<"s">>, TArrow(tnat, tnat)>>,
                     <<<<"l", "e", "n">>, TArrow(tnat, tint)>> >>,
   invented |-> <<>>]

\* an invention that is its own definition
RegistryCyclic ==
  [primitives |-> << <<<<"0">>, tint>>, <<<<"1">>, tint>>, <<<<"+">>, int3>> >>,
   invented |-> << <<Invented(0), tint>> >>]
\* an invention defined by the one after it
RegistryForward ==
  [primitives |-> << <<<<"0">>, tint>>, <<<<"1">>, tint>>, <<<<"+">>, int3>> >>,
   invented |-> << <<Invented(1), tint>>, <<Primitive(0), tint>> >>]

EnumRegistries ==
  {RegistryA, RegistryA3, RegistryInv, RegistryPoly, RegistrySole}
Requests ==
  {tint, tbool, tnat, int2, TArrow(TVar(50), tint),
   ArrowOf(<<tint, tbool, tint>>)}

InventRegistries ==
  {RegistryA, RegistryDoc, RegistryCyclic, RegistryForward}
\* (λ (+ $0 1)) in RegistryA
IncrementA == Abstraction(Application(Application(Primitive(2), Index(0)), Primitive(1)))
InventInputs ==
  {IncrementA, Primitive(0), Primitive(9), Invented(0), Invented(1),
   Invented(2), Invented(3), Invented(4),
   Application(Primitive(0), Primitive(1)),
   Application(Invented(0), Primitive(0)),
   Application(Primitive(0), Primitive(9)),
   Application(Application(Primitive(0), Primitive(1)), Primitive(9)),
   Abstraction(Invented(7))}
\* (singleton ((λ (>= $0 1)) (#(+ 1) 0))) in RegistryDoc
DocExpression ==
  Application(Primitive(0),
    Application(
      Abstraction(Application(Application(Primitive(1), Index(0)),
                              Primitive(4))),
      Application(Invented(0), Primitive(3))))
\* the expressions handed to infer
InferInputs ==
  InventInputs
    \cup {DocExpression,
          Application(Application(Primitive(2), Primitive(0)), Primitive(1)),
          Application(Primitive(2),
            Application(Application(Primitive(3), Primitive(0)), Primitive(1))),
          Abstraction(Index(0)),
          Application(Abstraction(Index(0)), Primitive(0)),
          Application(Primitive(0), Primitive(3)),
          Application(Primitive(2), Primitive(1))}

\* the registries on which texts are parsed: "0", "1" and "+" are the
\* primitives 0, 1 and 2 of each
SyntaxRegistries == {RegistryA, RegistryA3, RegistryInv}
\* texts of expressions and the expressions they denote
SyntaxItems ==
  {[text |-> <<"+">>, expr |-> Primitive(2)],
   [text |-> <<"0">>, expr |-> Primitive(0)],
   [text |-> <<"1">>, expr |-> Primitive(1)],
   [text |-> <<"$", "0">>, expr |-> Index(0)],
   [text |-> <<"(">> \o LambdaBytes \o <<" ", "$", "0", ")">>,
    expr |-> Abstraction(Index(0))],
   [text |-> <<"(", "+", " ", "1", ")">>,
    expr |-> Application(Primitive(2), Primitive(1))]}
\* the lists e0 e1 of such items, and the lists + e1 e2
ItemLists ==
  {<<a, b>> : a, b \in SyntaxItems}
    \cup {<<[text |-> <<"+">>, expr |-> Primitive(2)], b, c>> :
             b, c \in SyntaxItems}
\* the texts of the items with sep between them
RECURSIVE JoinItems(_, _)
JoinItems(items, sep) ==
  IF Len(items) = 1 THEN items[1].text
  ELSE items[1].text \o sep \o JoinItems(Tail(items), sep)
\* "(e0 e1 ... en)", and the same with more whitespace
FlatText(items) == <<"(">> \o JoinItems(items, <<" ">>) \o <<")">>
LooseText(items) == <<"(">> \o JoinItems(items, <<" ", "\t">>) \o <<" ", ")">>
\* Application(...Application(e0, e1)..., en)
RECURSIVE LeftNested(_)
LeftNested(items) ==
  IF Len(items) = 1 THEN items[1].expr
  ELSE Application(LeftNested(SubSeq(items, 1, Len(items) - 1)),
                   items[Len(items)].expr)
\* "(λ (+ $0 1))" and "(lambda (+ $0 1))"
IncrementText ==
  <<"(">> \o LambdaBytes \o <<" ", "(", "+", " ", "$", "0", " ", "1", ")", ")">>
IncrementTextAscii ==
  <<"(", "l", "a", "m", "b", "d", "a", " ",
    "(", "+", " ", "$", "0", " ", "1", ")", ")">>
\* "$n" alone, for n = 0 .. MaxIndex and a number of two digits
IndexNumbers == 0..MaxIndex \cup {12}
IndexTexts == {<<"$">> \o ShowNat(n) : n \in IndexNumbers}
\* the texts handed to parse
SyntaxTexts ==
  {FlatText(items) : items \in ItemLists}
    \cup {LooseText(items) : items \in ItemLists}
    \cup {IncrementText, IncrementTextAscii}
    \cup IndexTexts
    \cup {<<"(", "+", " ", "1", " ">> \o t \o <<")">> : t \in IndexTexts}
    \cup {<<"(", "+", " ", "1", " ">> \o t : t \in IndexTexts}
\* the expressions handed to stringify
SyntaxExpressions ==
  {LeftNested(items) : items \in ItemLists}
    \cup {IncrementA}
    \cup {Index(n) : n \in IndexNumbers}
    \cup {Abstraction(Index(n)) : n \in IndexNumbers}

(***************************************************************************)
(* The state machine.                                                      *)
(***************************************************************************)
VARIABLES
  dsl,      \* the Language
  iter,     \* the iterator enumerate returned, while the caller holds it
  yielded,  \* what that iterator has returned so far, in order
  ret       \* the last completed call and its result

vars == <<dsl, iter, yielded, ret>>

NoIter == [live |-> FALSE]

InitWith(registries) ==
  /\ \E r \in registries : dsl = uniform(r.primitives, r.invented)
  /\ iter = NoIter
  /\ yielded = <<>>
  /\ ret = [op |-> "uniform"]

\* dsl.invent(expr); the iterator borrows the Language, so none is live
Invent(e) ==
  /\ ~iter.live
  /\ Len(dsl.invented) < MaxInvented
  /\ LET r == invent(dsl, e)
     IN  /\ dsl' = r.dsl
         /\ ret' = IF r.ok
                     THEN [op |-> "invent", expr |-> e, ok |-> TRUE,
                           num |-> r.num, pre |-> dsl]
                     ELSE [op |-> "invent", expr |-> e, ok |-> FALSE,
                           err |-> r.err, pre |-> dsl]
  /\ UNCHANGED <<iter, yielded>>

\* dsl.primitive(num)
LookupPrimitive(num) ==
  /\ ret' = [op |-> "primitive", num |-> num, result |-> primitive(dsl, num),
             pre |-> dsl]
  /\ UNCHANGED <<dsl, iter, yielded>>

\* dsl.invented(num)
LookupInvented(num) ==
  /\ ret' = [op |-> "invented", num |-> num, result |-> invented(dsl, num),
             pre |-> dsl]
  /\ UNCHANGED <<dsl, iter, yielded>>

\* dsl.strip_invented(expr)
StripInvented(e) ==
  /\ ret' = [op |-> "strip_invented", expr |-> e,
             result |-> LanguageStripInvented(dsl, e), pre |-> dsl]
  /\ UNCHANGED <<dsl, iter, yielded>>

\* what the caller sees of dsl.infer(expr): Ok(tp) or Err(kind)
InferResult(r) ==
  IF r.ok THEN [ok |-> TRUE, tp |-> r.tp] ELSE [ok |-> FALSE, err |-> r.err]
\* dsl.infer(expr)
Infer(e) ==
  /\ ret' = [op |-> "infer", expr |-> e,
             result |-> InferResult(LanguageInfer(dsl, e)), pre |-> dsl]
  /\ UNCHANGED <<dsl, iter, yielded>>

\* (0..).next(): the range has no end
RangeFromNext(n) == Some(n)

\* dsl.enumerate(request): enumerator::new builds the lazy flat_map
Enumerate(request) ==
  /\ ~iter.live
  /\ iter' = [live |-> TRUE, request |-> request, n |-> 0, cur |-> -1,
              front |-> <<>>, done |-> FALSE]
  /\ yielded' = <<>>
  /\ ret' = [op |-> "enumerate"]
  /\ UNCHANGED dsl

\* inside next(): the inner iterator is exhausted, the flat_map takes the
\* next offset of the range and builds the inner iterator of that window
Pull ==
  /\ iter.live /\ ~iter.done /\ iter.front = <<>>
  /\ iter.n < MaxWindow
  /\ LET o == RangeFromNext(iter.n)
     IN  iter' = IF o.some
                   THEN [iter EXCEPT !.cur = o.val, !.n = o.val + 1,
                                     !.front = Window(dsl, iter.request, o.val)]
                   ELSE [iter EXCEPT !.done = TRUE]
  /\ UNCHANGED <<dsl, yielded, ret>>

\* next() returns Some(expr): the head of the inner iterator
Yield ==
  /\ iter.live /\ iter.front # <<>>
  /\ yielded' = Append(yielded, [expr |-> Head(iter.front).expr,
                                 ll |-> Head(iter.front).ll,
                                 window |-> iter.cur])
  /\ iter' = [iter EXCEPT !.front = Tail(@)]
  /\ ret' = [op |-> "next"]
  /\ UNCHANGED dsl

\* the caller drops the iterator
Drop ==
  /\ iter.live
  /\ iter' = NoIter
  /\ ret' = [op |-> "drop"]
  /\ UNCHANGED <<dsl, yielded>>

\* dsl.stringify(expr) of the expression next() returned last
Stringify ==
  /\ ret.op = "next"
  /\ LET e == yielded[Len(yielded)].expr
     IN  ret' = [op |-> "stringify", expr |-> e, text |-> stringify(dsl, e)]
  /\ UNCHANGED <<dsl, iter, yielded>>

\* dsl.parse(text) of the text stringify returned
Parse ==
  /\ ret.op = "stringify"
  /\ ret' = [op |-> "parse", expr |-> ret.expr, text |-> ret.text,
             result |-> LanguageParse(dsl, ret.text)]
  /\ UNCHANGED <<dsl, iter, yielded>>

\* dsl.stringify(expr) of an expression of the caller
StringifyExpression(e) ==
  /\ ret' = [op |-> "stringify", expr |-> e, text |-> stringify(dsl, e)]
  /\ UNCHANGED <<dsl, iter, yielded>>

\* dsl.parse(text) of a text of the caller
ParseText(t) ==
  /\ ret' = [op |-> "parse_text", text |-> t, result |-> LanguageParse(dsl, t)]
  /\ UNCHANGED <<dsl, iter, yielded>>

\* candidates(dsl, request, ctx, env) at a search node of a non-arrow request
Candidates(request, env) ==
  /\ ret' = [op |-> "candidates", request |-> request, env |-> env,
             cands |-> candidates(dsl, request, ContextDefault, env)]
  /\ UNCHANGED <<dsl, iter, yielded>>

\* the requests and environments of the search nodes looked at
NodeRequests == {tint, tbool, tnat}
NodeEnvironments ==
  {<<>>, <<tint>>, <<tint, tint>>, <<tbool, tint>>, <<TArrow(tint, tint), tbool>>}

\* the registry: construction, invention, lookups
InitRegistry == InitWith(InventRegistries)
NextRegistry ==
  \/ \E e \in InventInputs : Invent(e)
  \/ \E num \in 0..MaxIndex : LookupPrimitive(num)
  \/ \E num \in 0..MaxIndex : LookupInvented(num)
  \/ \E e \in InventInputs : StripInvented(e)
  \/ \E e \in InferInputs : Infer(e)
  \/ \E request \in NodeRequests, env \in NodeEnvironments :
       Candidates(request, env)
SpecRegistry == InitRegistry /\ [][NextRegistry]_vars

\* the enumerator and the round trip of what it yields
InitEnum == InitWith(EnumRegistries)
NextEnum ==
  \/ \E request \in Requests : Enumerate(request)
  \/ Pull
  \/ Yield
  \/ Drop
  \/ Stringify
  \/ Parse
SpecEnum == InitEnum /\ [][NextEnum]_vars

\* One branch of the search of one window, call by call. iter is the
\* pending call of enumerate: its request, context, environment, budget and
\* depth, and the number of calls made on the branch so far.
\* the closure of enumerator::new calls enumerate for window n
Search(request, n) ==
  /\ ~iter.live
  /\ iter' = [live |-> TRUE, pending |-> TRUE, request |-> request,
              ctx |-> ContextDefault, env |-> <<>>,
              budget |-> budgetOf(WindowOffset(n)), depth |-> 0, steps |-> 0]
  /\ ret' = [op |-> "search", window |-> n]
  /\ UNCHANGED <<dsl, yielded>>

\* enumerate returns iter::empty(): the budget is used up or the depth is
\* above MAX_DEPTH
Cut ==
  /\ iter.live /\ iter.pending
  /\ Le0(iter.budget[2]) \/ TooDeep(iter.depth)
  /\ iter' = [iter EXCEPT !.pending = FALSE, !.steps = @ + 1]
  /\ ret' = [op |-> "empty", depth |-> iter.depth, items |-> <<>>]
  /\ UNCHANGED <<dsl, yielded>>

\* enumerate on an arrow request: one binder, the same budget and depth
Bind ==
  /\ iter.live /\ iter.pending
  /\ ~(Le0(iter.budget[2]) \/ TooDeep(iter.depth))
  /\ IsArrow(iter.request)
  /\ iter' = [iter EXCEPT !.request = iter.request[3],
                          !.env = <<iter.request[2]>> \o @,
                          !.steps = @ + 1]
  /\ ret' = [op |-> "bind", depth |-> iter.depth]
  /\ UNCHANGED <<dsl, yielded>>

\* the candidates the flat_map of enumerate visits
Visited ==
  WithinBudget(candidates(dsl, iter.request, iter.ctx, iter.env), iter.budget)

\* enumerate visits a candidate with arguments: enumerate_application calls
\* enumerate for the first of them
Choose ==
  /\ iter.live /\ iter.pending
  /\ ~(Le0(iter.budget[2]) \/ TooDeep(iter.depth))
  /\ ~IsArrow(iter.request)
  /\ \E i \in DOMAIN Visited :
       /\ ArrowArgs(Visited[i][3]) # <<>>
       /\ iter' = [iter EXCEPT
                     !.request = Apply(Head(ArrowArgs(Visited[i][3])),
                                       Visited[i][4]),
                     !.ctx = Visited[i][4],
                     !.budget = <<Zero, ShiftBudget(iter.budget,
                                                    Visited[i][1])[2]>>,
                     !.depth = @ + 1,
                     !.steps = @ + 1]
       /\ ret' = [op |-> "choose", head |-> Visited[i][2],
                  depth |-> iter.depth + 1]
  /\ UNCHANGED <<dsl, yielded>>

\* enumerate visits a candidate without arguments: the base case of
\* enumerate_application ends the branch
Leaf ==
  /\ iter.live /\ iter.pending
  /\ ~(Le0(iter.budget[2]) \/ TooDeep(iter.depth))
  /\ ~IsArrow(iter.request)
  /\ \E i \in DOMAIN Visited :
       /\ ArrowArgs(Visited[i][3]) = <<>>
       /\ ret' = [op |-> "leaf", head |-> Visited[i][2],
                  depth |-> iter.depth + 1,
                  yields |-> InBudget(ShiftBudget(iter.budget, Visited[i][1]))]
  /\ iter' = [iter EXCEPT !.pending = FALSE, !.steps = @ + 1]
  /\ UNCHANGED <<dsl, yielded>>

InitDepth == InitWith({RegistrySucc, RegistryA3})
NextDepth ==
  \/ \E request \in {tnat, tint, int2}, n \in 0..(MaxWindow - 1) :
       Search(request, n)
  \/ Cut
  \/ Bind
  \/ Choose
  \/ Leaf
SpecDepth == InitDepth /\ [][NextDepth]_vars

\* the printer and the parser on the caller's expressions and texts
InitSyntax == InitWith(SyntaxRegistries)
NextSyntax ==
  \/ \E e \in SyntaxExpressions : StringifyExpression(e)
  \/ Parse
  \/ \E t \in SyntaxTexts : ParseText(t)
SpecSyntax == InitSyntax /\ [][NextSyntax]_vars

(***************************************************************************)
(* Properties.                                                             *)
(***************************************************************************)
\* cost(e) of a yielded expression: the negated sum of the normalized
\* log-probabilities of its head choices, as the enumerator accumulates it
Cost(y) == Neg(y.ll)

\* one more than the largest type variable of t
RECURSIVE VarBound(_)
VarBound(t) ==
  CASE IsVar(t) -> t[2] + 1
    [] IsArrow(t) ->
         IF VarBound(t[2]) < VarBound(t[3]) THEN VarBound(t[3])
         ELSE VarBound(t[2])
    [] IsCon(t) ->
         LET bs == {VarBound(t[3][i]) : i \in DOMAIN t[3]}
         IN  IF bs = {} THEN 0 ELSE CHOOSE m \in bs : \A k \in bs : k <= m

\* t, with its variables renamed apart from those of request, unifies with
\* request
UnifiesWith(t, request) ==
  LET apart == InstantiateIndep(t, [substitution |-> <<>>,
                                    next |-> VarBound(request)])
  IN  Unify(apart.ctx, apart.tp, request).ok

\* infer(e) returns Ok(t) and t unifies with request
WellTyped(d, e, request) ==
  LET r == LanguageInfer(d, e)
  IN  r.ok /\ UnifiesWith(r.tp, request)

\* C1: type soundness of enumeration: the expression next() has just
\* returned is well-typed, infer returns Ok(t) for it and t unifies with the
\* request of the enumeration.
TypeSoundness ==
  ret.op = "next" =>
    WellTyped(dsl, yielded[Len(yielded)].expr, iter.request)

WindowOrdering ==
  /\ iter.live => iter.cur = iter.n - 1
  /\ \A i, j \in DOMAIN yielded :
       i < j =>
         /\ yielded[i].window <= yielded[j].window
         /\ Lt(Minus(Cost(yielded[i]), Whole(BUDGET_INCREMENT)),
               Cost(yielded[j]))
\* expressions of two different windows have been yielded
WindowOrderingWitness ==
  /\ Len(yielded) >= 2
  /\ yielded[1].window < yielded[Len(yielded)].window

\* (+ a b) in the registry 0, 1, +
Sum(a, b) == Application(Application(Primitive(2), a), b)
\* 0, 1, (+ 0 0), (+ 0 1), (+ 1 0), (+ 1 1), (+ 0 (+ 0 0)), (+ 0 (+ 0 1))
ScenarioA ==
  <<Primitive(0), Primitive(1),
    Sum(Primitive(0), Primitive(0)), Sum(Primitive(0), Primitive(1)),
    Sum(Primitive(1), Primitive(0)), Sum(Primitive(1), Primitive(1)),
    Sum(Primitive(0), Sum(Primitive(0), Primitive(0))),
    Sum(Primitive(0), Sum(Primitive(0), Primitive(1)))>>
\* enumerate(int) is under way on the registry 0, 1, +, with or without >
InScenarioA ==
  /\ dsl \in {uniform(RegistryA.primitives, <<>>),
              uniform(RegistryA3.primitives, <<>>)}
  /\ iter.live
  /\ iter.request = tint

\* C4: exact enumeration order: on the registry 0, 1, + (with or without a
\* primitive that does not return int) enumerate(int) yields first
\* 0, 1, (+ 0 0), (+ 0 1), (+ 1 0), (+ 1 1), (+ 0 (+ 0 0)), (+ 0 (+ 0 1)).
ExactOrder ==
  InScenarioA =>
    \A i \in DOMAIN yielded :
      i <= Len(ScenarioA) => yielded[i].expr = ScenarioA[i]
\* the eight expressions have all been yielded
ExactOrderWitness == InScenarioA /\ Len(yielded) >= Len(ScenarioA)

\* C5: round trip: parse(stringify(e)) returns Ok(e) for the expression e
\* the enumerator has yielded.
RoundTrip ==
  ret.op = "parse" => ret.result = [ok |-> TRUE, expr |-> ret.expr]

\* C6: append-only invention: a successful invent on a table of length n
\* returns n, leaves the table n + 1 long with entry n the expression and its
\* inferred type, and leaves the entries below n and the primitives alone.
AppendOnly ==
  (ret.op = "invent" /\ ret.ok) =>
    /\ ret.num = Len(ret.pre.invented)
    /\ Len(dsl.invented) = Len(ret.pre.invented) + 1
    /\ dsl.invented[ret.num + 1]
         = <<ret.expr, LanguageInfer(ret.pre, ret.expr).tp>>
    /\ \A i \in DOMAIN ret.pre.invented :
         dsl.invented[i] = ret.pre.invented[i]
    /\ dsl.primitives = ret.pre.primitives
\* an invention has been added to a table that held one already
AppendOnlyWitness ==
  ret.op = "invent" /\ ret.ok /\ Len(ret.pre.invented) >= 1

\* C7: registry length invariant: each table of log-probabilities is as long
\* as the table it goes with.
RegistryLengths ==
  /\ Len(dsl.primitives_logprob) = Len(dsl.primitives)
  /\ Len(dsl.invented_logprob) = Len(dsl.invented)

\* C8: registry lookup totality: primitive(i) and invented(i) return entry i
\* exactly when i is below the length of the table, None otherwise, and leave
\* the Language as it was.
LookupTotality ==
  /\ ret.op = "primitive" =>
       /\ dsl = ret.pre
       /\ ret.result =
            IF ret.num < Len(dsl.primitives)
              THEN Some(<<dsl.primitives[ret.num + 1][1],
                          dsl.primitives[ret.num + 1][2],
                          dsl.primitives_logprob[ret.num + 1]>>)
              ELSE None
  /\ ret.op = "invented" =>
       /\ dsl = ret.pre
       /\ ret.result.some <=> ret.num < Len(dsl.invented)
       /\ ret.result.some =>
            /\ ret.result.val[1] = dsl.invented[ret.num + 1][1]
            /\ ret.result.val[2] = dsl.invented[ret.num + 1][2]

\* C9: invent is atomic on failure: when invent returns Err the Language is
\* exactly as it was before the call.
InventAtomic ==
  (ret.op = "invent" /\ ~ret.ok) => dsl = ret.pre
\* invent has failed on a reference to the index the invention would get
InventAtomicWitness ==
  /\ ret.op = "invent" /\ ~ret.ok
  /\ ret.expr = Invented(Len(ret.pre.invented))

\* no primitive, invention or bound variable returns a type that unifies
\* with the request
RECURSIVE NoAdmissible(_, _, _)
NoAdmissible(d, request, env) ==
  IF IsArrow(request)
    THEN NoAdmissible(d, request[3], <<request[2]>> \o env)
    ELSE candidates(d, request, ContextDefault, env) = <<>>

\* C10: empty enumeration terminates: the enumeration of a request without
\* admissible candidate is at its end once every window up to the last one
\* of the model has been looked into.
EmptyTerminates ==
  (iter.live /\ iter.n = MaxWindow /\ NoAdmissible(dsl, iter.request, <<>>))
    => iter.done

\* the indices of the Invented nodes of e
RECURSIVE InventedIn(_)
InventedIn(e) ==
  CASE IsApplication(e) -> InventedIn(e[2]) \cup InventedIn(e[3])
    [] IsAbstraction(e) -> InventedIn(e[2])
    [] IsInvented(e) -> {e[2]}
    [] OTHER -> {}
\* the indices of the Primitive nodes of e
RECURSIVE PrimitivesIn(_)
PrimitivesIn(e) ==
  CASE IsApplication(e) -> PrimitivesIn(e[2]) \cup PrimitivesIn(e[3])
    [] IsAbstraction(e) -> PrimitivesIn(e[2])
    [] IsPrimitive(e) -> {e[2]}
    [] OTHER -> {}

\* the inventions reached from the inventions in `from` in at most k steps
RECURSIVE ReachedIn(_, _, _)
ReachedIn(table, from, k) ==
  IF k = 0 THEN from
  ELSE ReachedIn(table,
         from \cup UNION {InventedIn(table[i + 1][1]) :
                            i \in {j \in from : j < Len(table)}},
         k - 1)
\* every Invented index in the table is in range and no invention reaches
\* itself
AcyclicTable(table) ==
  \A i \in 0..(Len(table) - 1) :
    LET reached == ReachedIn(table, InventedIn(table[i + 1][1]), Len(table))
    IN  (\A j \in reached : j < Len(table)) /\ i \notin reached

\* C11: strip_invented normal form and idempotence: on an acyclic invented
\* table and an expression whose Invented indices are in range,
\* strip_invented returns an expression without Invented node that
\* strip_invented maps to itself, and Invented(i) is mapped to the expanded
\* definition of invention i (the definition itself when it holds no
\* Invented node).
StripNormalForm ==
  (/\ ret.op = "strip_invented"
   /\ AcyclicTable(dsl.invented)
   /\ \A i \in InventedIn(ret.expr) : i < Len(dsl.invented)) =>
    /\ ret.result.kind = "value"
    /\ InventedIn(ret.result.expr) = {}
    /\ LanguageStripInvented(dsl, ret.result.expr) = ret.result
    /\ IsInvented(ret.expr) =>
         /\ ret.result
              = LanguageStripInvented(dsl, dsl.invented[ret.expr[2] + 1][1])
         /\ InventedIn(dsl.invented[ret.expr[2] + 1][1]) = {} =>
              ret.result.expr = dsl.invented[ret.expr[2] + 1][1]
\* an invention whose definition holds an Invented node was stripped
StripNormalFormWitness ==
  /\ ret.op = "strip_invented"
  /\ AcyclicTable(dsl.invented)
  /\ IsInvented(ret.expr)
  /\ ret.expr[2] < Len(dsl.invented)
  /\ InventedIn(dsl.invented[ret.expr[2] + 1][1]) # {}
  /\ ret.result.kind = "value"

\* e holds a Primitive or an Invented whose index is out of range in d
HasBadReference(e, d) ==
  \/ \E i \in PrimitivesIn(e) : i >= Len(d.primitives)
  \/ \E i \in InventedIn(e) : i >= Len(d.invented)
\* e holds no Application node
RECURSIVE NoApplicationIn(_)
NoApplicationIn(e) ==
  CASE IsApplication(e) -> FALSE
    [] IsAbstraction(e) -> NoApplicationIn(e[2])
    [] OTHER -> TRUE
\* going function before argument, a reference out of range is met before
\* any Application has had its unification
RECURSIVE BadReferenceFirst(_, _)
BadReferenceFirst(e, d) ==
  CASE IsApplication(e) ->
         \/ BadReferenceFirst(e[2], d)
         \/ /\ NoApplicationIn(e[2])
            /\ ~HasBadReference(e[2], d)
            /\ BadReferenceFirst(e[3], d)
    [] IsAbstraction(e) -> BadReferenceFirst(e[2], d)
    [] IsPrimitive(e) -> e[2] >= Len(d.primitives)
    [] IsInvented(e) -> e[2] >= Len(d.invented)
    [] OTHER -> FALSE

\* C12: inference reports bad references as errors: infer of an expression
\* holding a Primitive or Invented out of range returns Err, with no type,
\* and the error is BadExpression when the reference is met before any
\* unification.
BadReferenceIsError ==
  (ret.op = "infer" /\ HasBadReference(ret.expr, dsl)) =>
    /\ ~ret.result.ok
    /\ DOMAIN ret.result = {"ok", "err"}
    /\ ret.result.err \in {"BadExpression", "Unify"}
    /\ BadReferenceFirst(ret.expr, dsl) => ret.result.err = "BadExpression"
\* infer has met a reference out of range in the argument of an application
BadReferenceIsErrorWitness ==
  /\ ret.op = "infer"
  /\ IsApplication(ret.expr)
  /\ HasBadReference(ret.expr[3], dsl)
  /\ BadReferenceFirst(ret.expr, dsl)
  /\ ~ret.result.ok

\* Ok(e) as Language::parse returns it
ParsedAs(e) == [ok |-> TRUE, expr |-> e]

\* C13: application syntax is a left fold in both directions: the text
\* (e0 e1 ... en) parses to Application(...Application(e0, e1)..., en),
\* stringify of that chain, e0 not an application, is the flat list again,
\* and (λ (+ $0 1)) is Abstraction(Application(Application(+, $0), 1)) both
\* ways.
ApplicationLeftFold ==
  /\ ret.op = "parse_text" =>
       /\ \A items \in ItemLists :
            ret.text \in {FlatText(items), LooseText(items)} =>
              ret.result = ParsedAs(LeftNested(items))
       /\ ret.text \in {IncrementText, IncrementTextAscii} =>
            ret.result = ParsedAs(IncrementA)
  /\ ret.op = "stringify" =>
       /\ \A items \in ItemLists :
            (ret.expr = LeftNested(items) /\ ~IsApplication(items[1].expr)) =>
              ret.text = FlatText(items)
       /\ ret.expr = IncrementA => ret.text = IncrementText
\* a list of three items whose last is an application has been parsed
ApplicationLeftFoldWitness ==
  /\ ret.op = "parse_text"
  /\ ret.result.ok
  /\ \E items \in ItemLists :
       /\ Len(items) = 3
       /\ IsApplication(items[3].expr)
       /\ ret.text = FlatText(items)

\* C14: De Bruijn index syntax: the text $n parses to Index(n), also when it
\* is the whole input or its end.
IndexSyntax ==
  /\ ret.op = "parse_text" =>
       \A n \in IndexNumbers :
         /\ ret.text = <<"$">> \o ShowNat(n) => ret.result = ParsedAs(Index(n))
         /\ ret.text = <<"(", "+", " ", "1", " ", "$">> \o ShowNat(n) \o <<")">>
              => ret.result
                   = ParsedAs(Application(Application(Primitive(2),
                                Primitive(1)), Index(n)))
  /\ (ret.op = "parse" /\ IsIndex(ret.expr)) => ret.result = ParsedAs(ret.expr)

\* the return type of a production unifies with the request
ReturnUnifies(tp, instantiate, request) ==
  LET inst == IF instantiate THEN InstantiateIndep(tp, ContextDefault)
              ELSE [tp |-> tp, ctx |-> ContextDefault]
  IN  Unify(inst.ctx, ArrowReturns(inst.tp), request).ok
\* every primitive, every entry of the invented table and every bound
\* variable whose return type unifies with the request
AdmissibleExpressions(d, request, env) ==
  {Primitive(i - 1) : i \in {j \in 1..Len(d.primitives) :
                               ReturnUnifies(d.primitives[j][2], TRUE, request)}}
    \cup {Invented(i - 1) : i \in {j \in 1..Len(d.invented) :
                               ReturnUnifies(d.invented[j][2], TRUE, request)}}
    \cup {Index(i - 1) : i \in {j \in 1..Len(env) :
                               ReturnUnifies(env[j], FALSE, request)}}

\* C15: the candidates at a non-arrow request are exactly the primitives,
\* the entries of the invented table and the bound variables whose return
\* type unifies with the request, each once, also after invent calls.
CandidateSetExact ==
  ret.op = "candidates" =>
    /\ {ret.cands[i][2] : i \in DOMAIN ret.cands}
         = AdmissibleExpressions(dsl, ret.request, ret.env)
    /\ Len(ret.cands) = Cardinality({ret.cands[i][2] : i \in DOMAIN ret.cands})

\* the candidates that are bound variables, and those that are not
VariableCandidates(cands) == {i \in DOMAIN cands : IsIndex(cands[i][2])}
RegisteredCandidates(cands) == DOMAIN cands \ VariableCandidates(cands)
\* the sum of exp(score) over the candidates from .. Len, as a fraction
RECURSIVE SumOfProbabilities(_, _)
SumOfProbabilities(cands, from) ==
  IF from > Len(cands) THEN <<0, 1>>
  ELSE AddFractions(ExpOf(cands[from][1]), SumOfProbabilities(cands, from + 1))
\* the scores of n registered candidates and m variables are ln(1/(n+1))
\* and ln(1/(m(n+1))), or ln(1/n) without variables
UniformScores(cands, n, m) ==
  /\ \A i \in RegisteredCandidates(cands) :
       cands[i][1] = LogNum(0, 1, IF m = 0 THEN n ELSE n + 1)
  /\ \A i \in VariableCandidates(cands) :
       cands[i][1] = LogNum(0, 1, m * (n + 1))
\* the sum is one
IsOne(f) == f[1] = f[2] /\ f[1] > 0

RECURSIVE SpineHead(_)
SpineHead(e) == IF IsApplication(e) THEN SpineHead(e[2]) ELSE e
RECURSIVE SpineArgs(_)
SpineArgs(e) ==
  IF IsApplication(e) THEN Append(SpineArgs(e[2]), e[3]) ELSE <<>>

\* the cost of an expression in the normal form of the enumerator (one
\* Abstraction per argument of the request, every head a candidate of its
\* node applied to all its arguments): the sum over its heads of minus the
\* score of the head among the candidates of its node; not ok when the
\* expression is not of that form
NotNormal == [ok |-> FALSE]
RECURSIVE NormalCost(_, _, _, _, _)
RECURSIVE ArgumentsCost(_, _, _, _, _, _)
ArgumentsAfter(d, args, arg_tps, env, cost, r) ==
  IF r.ok
    THEN ArgumentsCost(d, args, arg_tps, r.ctx, env, Plus(cost, r.cost))
    ELSE NotNormal
ArgumentsCost(d, args, arg_tps, ctx, env, cost) ==
  IF args = <<>> \/ arg_tps = <<>>
    THEN IF Len(args) = Len(arg_tps)
           THEN [ok |-> TRUE, cost |-> cost, ctx |-> ctx]
           ELSE NotNormal
    ELSE ArgumentsAfter(d, Tail(args), Tail(arg_tps), env, cost,
           NormalCost(d, Head(args), Apply(Head(arg_tps), ctx), ctx, env))
HeadChosen(d, e, env, c) ==
  ArgumentsCost(d, SpineArgs(e), ArrowArgs(c[3]), c[4], env, Neg(c[1]))
HeadCost(d, e, env, cands, hits) ==
  IF hits = {} THEN NotNormal
  ELSE HeadChosen(d, e, env, cands[CHOOSE i \in hits : TRUE])
NodeCost(d, e, env, cands) ==
  HeadCost(d, e, env, cands,
           {i \in DOMAIN cands : cands[i][2] = SpineHead(e)})
NormalCost(d, e, request, ctx, env) ==
  IF IsArrow(request)
    THEN IF IsAbstraction(e)
           THEN NormalCost(d, e[2], request[3], ctx, <<request[2]>> \o env)
           ELSE NotNormal
    ELSE NodeCost(d, e, env, candidates(d, request, ctx, env))

\* the expressions looked for among the yielded ones: a head with up to two
\* arguments, each argument a head with up to one argument, under up to one
\* binder
ReferenceHeads == {Primitive(i) : i \in 0..3} \cup {Index(0)}
ReferenceArguments ==
  ReferenceHeads \cup {Application(f, x) : f, x \in ReferenceHeads}
ReferenceBodies ==
  ReferenceHeads
    \cup {Application(f, x) : f \in ReferenceHeads, x \in ReferenceArguments}
    \cup {Application(Application(f, x), y) :
            f \in ReferenceHeads, x, y \in ReferenceHeads}
ReferenceForms == ReferenceBodies \cup {Abstraction(b) : b \in ReferenceBodies}
\* how often e was yielded while window k was visited
TimesYielded(e, k) ==
  Cardinality({i \in DOMAIN yielded :
                 yielded[i].expr = e /\ yielded[i].window = k})
\* e of cost c is yielded once in the window of c and in no other
YieldedInItsWindow(e, c) ==
  \A k \in 0..(MaxWindow - 1) :
    TimesYielded(e, k)
      = IF Le(Whole(BUDGET_INCREMENT * k), c)
           /\ Lt(c, Whole(BUDGET_INCREMENT * (k + 1)))
          THEN 1 ELSE 0
CompleteFor(e, r) ==
  (r.ok /\ Lt(r.cost, Whole(BUDGET_INCREMENT * MaxWindow))
     /\ WellTyped(dsl, e, iter.request))
    => YieldedInItsWindow(e, r.cost)

\* C16: completeness within a window: once the windows of the model have
\* been visited, every well-typed expression in the enumerator's normal form
\* whose cost lies in window k has been yielded exactly once in window k and
\* in no other window, expressions with a sub-expression of cost 0 included.
WindowComplete ==
  (iter.live /\ iter.n = MaxWindow /\ iter.front = <<>>) =>
    \A e \in ReferenceForms :
      CompleteFor(e, NormalCost(dsl, e, iter.request, ContextDefault, <<>>))

\* C17: acyclic invention table: in every Language made by uniform and
\* invent calls the invention at position i holds only Invented(j) with
\* j < i, and strip_invented returns on every expression whose Invented
\* indices are in range.
StrictlyEarlier ==
  /\ \A i \in 0..(Len(dsl.invented) - 1) :
       \A j \in InventedIn(dsl.invented[i + 1][1]) : j < i
  /\ (/\ ret.op = "strip_invented"
      /\ \A i \in InventedIn(ret.expr) : i < Len(dsl.invented)) =>
       ret.result.kind = "value"

\* the calls one branch can make: at each depth one candidate and the
\* binders of its request, two at most in the registries of the model
StepLimit == (MAX_DEPTH + 2) * 3

\* C18: depth bound and termination of the search of one window: a branch
\* makes finitely many calls also when the only candidate costs nothing and
\* is recursive, the call above MAX_DEPTH returns nothing and raises nothing,
\* and no head is nested deeper than MAX_DEPTH + 1.
DepthBound ==
  /\ (iter.live /\ "depth" \in DOMAIN iter) =>
       /\ iter.depth <= MAX_DEPTH + 1
       /\ iter.steps <= StepLimit
       /\ (iter.depth = MAX_DEPTH + 1 /\ ~iter.pending) =>
            (ret.op = "empty" /\ ret.items = <<>>)
  /\ ret.op \in {"choose", "leaf"} => ret.depth <= MAX_DEPTH + 1
\* the call at depth MAX_DEPTH + 1 has returned nothing though budget is left
DepthBoundWitness ==
  /\ iter.live /\ "depth" \in DOMAIN iter
  /\ iter.depth = MAX_DEPTH + 1
  /\ ~iter.pending
  /\ ret.op = "empty"
  /\ ~Le0(iter.budget[2])

\* e is n binders around an expression that is no binder
RECURSIVE HasBinders(_, _)
HasBinders(e, n) ==
  IF n = 0 THEN ~IsAbstraction(e)
  ELSE IsAbstraction(e) /\ HasBinders(e[2], n - 1)
\* the expression under the first n binders of e
RECURSIVE UnderBinders(_, _)
UnderBinders(e, n) == IF n = 0 THEN e ELSE UnderBinders(e[2], n - 1)
\* the argument types, the last one first
RECURSIVE MostRecentFirst(_)
MostRecentFirst(args) ==
  IF args = <<>> THEN <<>>
  ELSE Append(MostRecentFirst(Tail(args)), Head(args))
\* the body is in normal form for the return type of the request in the
\* environment env, at the cost the enumerator gave to the whole expression
BodyFor(y, request, env) ==
  LET r == NormalCost(dsl, UnderBinders(y.expr, Len(env)),
                      ArrowReturns(request), ContextDefault, env)
  IN  r.ok /\ r.cost = Cost(y)

\* C19: currying: the expression next() has just returned for a request
\* arg1 -> ... -> argn -> ret is n binders around a body for ret whose cost
\* is the cost of the whole, in the environment argn, ..., arg1, and its
\* window is the window of that cost.
Currying ==
  ret.op = "next" =>
    LET y == yielded[Len(yielded)]
        args == ArrowArgs(iter.request)
    IN  /\ HasBinders(y.expr, Len(args))
        /\ BodyFor(y, iter.request, MostRecentFirst(args))
        /\ Le(Whole(BUDGET_INCREMENT * y.window), Cost(y))
        /\ Lt(Cost(y), Whole(BUDGET_INCREMENT * (y.window + 1)))
\* (λ (λ (+ $1 $1))) has been yielded for int -> bool -> int
CurryingWitness ==
  /\ ret.op = "next"
  /\ iter.request = ArrowOf(<<tint, tbool, tint>>)
  /\ yielded[Len(yielded)].expr
       = Abstraction(Abstraction(Application(Application(Primitive(2),
                                   Index(1)), Index(1))))

\* what one production gives when it is tried alone on the context of the
\* node: its instantiated type, its return type unified with the request
AloneCandidate(pr, request, ctx) ==
  LET inst == IF pr.instantiate THEN InstantiateIndep(pr.tp, ctx)
              ELSE [tp |-> pr.tp, ctx |-> ctx]
      u == Unify(inst.ctx, ArrowReturns(inst.tp), request)
  IN  [ok |-> u.ok, expr |-> pr.expr, tp |-> Apply(inst.tp, u.ctx),
       ctx |-> u.ctx]
\* the context c holds every binding of the context ctx and no variable
\* below ctx.next that ctx has not
ExtendsContext(c, ctx) ==
  /\ ctx.next <= c.next
  /\ \A v \in DOMAIN ctx.substitution :
       v \in DOMAIN c.substitution /\ c.substitution[v] = ctx.substitution[v]
\* the candidates of a node are the productions admitted alone, each with
\* the context it gets alone
AloneKept(prods, request, ctx) ==
  SelectSeq([i \in DOMAIN prods |-> AloneCandidate(prods[i], request, ctx)],
            LAMBDA a : a.ok)
SameAsAlone(cands, kept, ctx) ==
  /\ Len(cands) = Len(kept)
  /\ \A i \in DOMAIN cands :
       /\ cands[i][2] = kept[i].expr
       /\ cands[i][3] = kept[i].tp
       /\ cands[i][4] = kept[i].ctx
       /\ ExtendsContext(cands[i][4], ctx)
NodeIsolated(d, request, ctx, env) ==
  SameAsAlone(candidates(d, request, ctx, env),
              AloneKept(Productions(d, env), request, ctx), ctx)

\* every node on the derivation of e is isolated, the context of a node
\* being the one its own head and the arguments before it have made
NotIsolated == [ok |-> FALSE]
RECURSIVE IsolatedAt(_, _, _, _, _)
RECURSIVE IsolatedArguments(_, _, _, _, _)
IsolatedAfter(d, args, arg_tps, env, r) ==
  IF r.ok THEN IsolatedArguments(d, args, arg_tps, r.ctx, env)
  ELSE NotIsolated
IsolatedArguments(d, args, arg_tps, ctx, env) ==
  IF args = <<>> \/ arg_tps = <<>>
    THEN IF Len(args) = Len(arg_tps) THEN [ok |-> TRUE, ctx |-> ctx]
         ELSE NotIsolated
    ELSE IsolatedAfter(d, Tail(args), Tail(arg_tps), env,
           IsolatedAt(d, Head(args), Apply(Head(arg_tps), ctx), ctx, env))
IsolatedHead(d, e, env, cands, hits) ==
  IF hits = {} THEN NotIsolated
  ELSE IsolatedArguments(d, SpineArgs(e),
         ArrowArgs(cands[CHOOSE i \in hits : TRUE][3]),
         cands[CHOOSE i \in hits : TRUE][4], env)
IsolatedNode(d, e, env, cands) ==
  IsolatedHead(d, e, env, cands,
               {i \in DOMAIN cands : cands[i][2] = SpineHead(e)})
IsolatedAt(d, e, request, ctx, env) ==
  IF IsArrow(request)
    THEN IF IsAbstraction(e)
           THEN IsolatedAt(d, e[2], request[3], ctx, <<request[2]>> \o env)
           ELSE NotIsolated
  ELSE IF NodeIsolated(d, request, ctx, env)
    THEN IsolatedNode(d, e, env, candidates(d, request, ctx, env))
  ELSE NotIsolated

\* C21: backtracking isolation: at every node on the derivation of the
\* expression next() has just returned, each candidate carries the context
\* it gets when it is tried alone on the context of the node, which extends
\* that context; no production is lost or changed by a sibling, and the
\* context of a node comes from the heads and arguments of its own
\* derivation only.
BacktrackingIsolation ==
  ret.op = "next" =>
    IsolatedAt(dsl, yielded[Len(yielded)].expr, iter.request,
               ContextDefault, <<>>).ok
\* an application of the polymorphic g, whose arguments bind its type
\* variables, has been yielded
BacktrackingIsolationWitness ==
  /\ ret.op = "next"
  /\ dsl = uniform(RegistryPoly.primitives, <<>>)
  /\ \E n \in 0..1 :
       /\ HasBinders(yielded[Len(yielded)].expr, n)
       /\ SpineHead(UnderBinders(yielded[Len(yielded)].expr, n)) = Primitive(3)

\* a type with its variables numbered in the order they appear
Canonical(t) == InstantiateIndep(t, ContextDefault).tp
\* Ok(t) with t so numbered, and Err(Unify)
TypeIs(t) == [ok |-> TRUE, tp |-> Canonical(t)]
UnifyError == [ok |-> FALSE, err |-> "Unify"]
CanonicalResult(r) == IF r.ok THEN TypeIs(r.tp) ELSE r
\* the Hindley-Milner types, derived by hand, of expressions over the
\* primitives 0, 1, +, > and over singleton, >=, +, 0, 1
ReferenceTypes ==
  {[primitives |-> RegistryA.primitives, expr |-> IncrementA,
    result |-> TypeIs(int2)],
   [primitives |-> RegistryA.primitives,
    expr |-> Application(Primitive(2), Primitive(1)),
    result |-> TypeIs(int2)],
   [primitives |-> RegistryA.primitives,
    expr |-> Application(Application(Primitive(2), Primitive(0)), Primitive(1)),
    result |-> TypeIs(tint)],
   [primitives |-> RegistryA.primitives,
    expr |-> Application(Primitive(2),
               Application(Application(Primitive(3), Primitive(0)),
                           Primitive(1))),
    result |-> UnifyError],
   [primitives |-> RegistryA.primitives,
    expr |-> Application(Primitive(0), Primitive(1)),
    result |-> UnifyError],
   [primitives |-> RegistryA.primitives, expr |-> Abstraction(Index(0)),
    result |-> TypeIs(TArrow(TVar(0), TVar(0)))],
   [primitives |-> RegistryA.primitives,
    expr |-> Application(Abstraction(Index(0)), Primitive(0)),
    result |-> TypeIs(tint)],
   [primitives |-> RegistryDoc.primitives, expr |-> DocExpression,
    result |-> TypeIs(tlist(tbool))],
   [primitives |-> RegistryDoc.primitives,
    expr |-> Application(Primitive(0), Primitive(3)),
    result |-> TypeIs(tlist(tint))],
   [primitives |-> RegistryDoc.primitives,
    expr |-> Application(Abstraction(Index(0)), Primitive(0)),
    result |-> TypeIs(TArrow(TVar(0), tlist(TVar(0))))],
   [primitives |-> RegistryDoc.primitives,
    expr |-> Application(Primitive(2), Primitive(1)),
    result |-> UnifyError],
   [primitives |-> RegistryDoc.primitives,
    expr |-> Application(Application(Primitive(2), Primitive(0)), Primitive(1)),
    result |-> UnifyError]}

\* every index of e is bound by a binder of e
RECURSIVE ClosedUnder(_, _)
ClosedUnder(e, binders) ==
  CASE IsApplication(e) -> ClosedUnder(e[2], binders) /\ ClosedUnder(e[3], binders)
    [] IsAbstraction(e) -> ClosedUnder(e[2], binders + 1)
    [] IsIndex(e) -> e[2] < binders
    [] OTHER -> TRUE
\* the rule on the types tf and tx of f and x, inferred each on its own: tf,
\* with variables apart from those of tx, is unified with tx -> r
RuleOn(tf, tx) ==
  LET r == TVar(VarBound(tx))
      apart == InstantiateIndep(tf, [substitution |-> <<>>,
                                     next |-> VarBound(tx) + 1])
      u == Unify(apart.ctx, apart.tp, TArrow(tx, r))
  IN  IF u.ok THEN TypeIs(Apply(r, u.ctx)) ELSE UnifyError
\* infer of an application of closed f and x follows the rule
ApplicationRule(result, f, x) ==
  IF ~f.ok THEN result = [ok |-> FALSE, err |-> f.err]
  ELSE IF ~x.ok THEN result = [ok |-> FALSE, err |-> x.err]
  ELSE CanonicalResult(result) = RuleOn(f.tp, x.tp)

\* C22: application typing rule: infer(Application(f, x)) is the substituted
\* return variable of the unification of type(f) with type(x) -> r, Err of
\* that unification when it is impossible, and on the reference expressions
\* the Hindley-Milner type; infer(Invented(i)) is the type of invention i,
\* int -> int for (λ (+ $0 1)).
ApplicationTyping ==
  ret.op = "infer" =>
    /\ \A row \in ReferenceTypes :
         (dsl.primitives = row.primitives /\ ret.expr = row.expr) =>
           CanonicalResult(ret.result) = row.result
    /\ (IsApplication(ret.expr) /\ ClosedUnder(ret.expr, 0)) =>
         ApplicationRule(ret.result, LanguageInfer(dsl, ret.expr[2]),
                         LanguageInfer(dsl, ret.expr[3]))
    /\ (IsInvented(ret.expr) /\ ret.expr[2] < Len(dsl.invented)) =>
         /\ CanonicalResult(ret.result)
              = TypeIs(dsl.invented[ret.expr[2] + 1][2])
         /\ (/\ dsl.primitives = RegistryA.primitives
             /\ dsl.invented[ret.expr[2] + 1][1] = IncrementA) =>
              ret.result = [ok |-> TRUE, tp |-> int2]
\* infer has refused + applied to (> 0 1)
ApplicationTypingWitness ==
  /\ ret.op = "infer"
  /\ dsl.primitives = RegistryA.primitives
  /\ ret.expr = Application(Primitive(2),
                  Application(Application(Primitive(3), Primitive(0)),
                              Primitive(1)))
  /\ ret.result = UnifyError

=============================================================================
